---- MODULE Spec2Model ----
(***************************************************************************)
(* memvec: a growable vector (MemVec) over a memory capability.  The       *)
(* capability modelled is VecFile: a file whose bytes [0, HEADER_LEN) hold *)
(* the persisted length word and whose bytes from HEADER_LEN on are the    *)
(* data region, mapped by an MmapFile.                                     *)
(*                                                                         *)
(* The file content is kept per element slot of the data region: slot k    *)
(* (1-based) is file bytes [HEADER_LEN+(k-1)*size, HEADER_LEN+k*size).      *)
(* Byte counts (file length, mapped extent, reserve/shrink targets) are    *)
(* kept in bytes, and the capacity is computed from them as align_to does. *)
(* A file extended by set_len reads as zero bytes: a new slot holds 0.     *)
(***************************************************************************)
EXTENDS Integers, Sequences, FiniteSets, TLC

\* ---------------------------------------------------------------- bounds
\* the disk holds at most MaxCap elements in the data region: a set_len
\* beyond it fails (disk full)
MaxCap == 3
\* the same, for the runs that only grow a container
MaxGrowCap == 16
\* a pre-existing file holds at most MaxInitSlots whole elements
MaxInitSlots == 1
\* at most MaxHalfDone resizes in a run fail between the resize of the file
\* and the replacement of the mapping
MaxHalfDone == 1
\* width of usize in the model (64 on the real targets)
UsizeBits == 16

\* ------------------------------------------------------ program constants
HEADER_LEN == 8

UsizeMod == 2 ^ UsizeBits

\* the element values pushed; 0 is the all-zero element of a fresh slot
Vals == {1, 2}
Stored == {0} \cup Vals

\* The element types T the container is bound to: size_of and align_of.
\* Record is a large packed record (MIN_NON_ZERO_CAP = 1).  Aligned is an
\* aligned type: the data region starts at file offset HEADER_LEN of a page
\* aligned mapping, which is no multiple of its alignment.
Record == [size |-> 1025, align |-> 1]
Aligned == [size |-> 16, align |-> 16]
ElemTypes == {Record, Aligned}

\* the element types of the three branches of MIN_NON_ZERO_CAP: a byte, the
\* 41-byte packed record of the tests, and Record
Byte == [size |-> 1, align |-> 1]
Record41 == [size |-> 41, align |-> 1]
GrowTypes == {Byte, Record41, Record}

VARIABLES
    T,          \* the element type of this run
    disk,       \* the elements the disk has room for in the data region
    st,         \* "closed" | "open" (a VecFile) | "bound" (a MemVec over it)
    fileLen,    \* length of the file in bytes
    hdr,        \* the length word stored in file bytes [0, HEADER_LEN)
    data,       \* the file's data region, per whole element slot
    mmapLen,    \* extent in bytes of the data mapping (MmapFile.mmap.len())
    refv,       \* reference in-memory sequence driven by the same calls
    synced,     \* refv has been initialised and follows the container
    halfDone,   \* resizes that changed the file and then failed to remap
    pc,         \* the position inside a call that is followed step by step
    last        \* the last call: its name, outcome and return value

vars == <<T, disk, st, fileLen, hdr, data, mmapLen, refv, synced, halfDone, pc, last>>

\* ------------------------------------------------------------- arithmetic
Max(a, b) == IF a >= b THEN a ELSE b
Min(a, b) == IF a <= b THEN a ELSE b

\* usize::wrapping_sub
WrappingSub(a, b) == (a - b + UsizeMod) % UsizeMod

\* (x as isize) < 0
IsNegative(x) == x >= UsizeMod \div 2

Zeros(n) == [k \in 1 .. n |-> 0]

\* the whole element slots of a file of n bytes
FileSlotsOf(n, size) == IF n < HEADER_LEN THEN 0 ELSE (n - HEADER_LEN) \div size

FileSlots == FileSlotsOf(fileLen, T.size)

\* a resize that clears the file
ResizedZeroed(d, n) == Zeros(n)

\* File::set_len on the data: truncation drops slots, extension adds zero
\* bytes
Resized(d, n) ==
    IF n <= Len(d) THEN SubSeq(d, 1, n) ELSE d \o Zeros(n - Len(d))

\* ptr.align_offset(align) for the start of the data mapping: the mapping is
\* page aligned and the data region starts HEADER_LEN bytes into it
AlignOffset(align) == (align - (HEADER_LEN % align)) % align

\* <[u8]>::align_to::<T>() on a mapping of `bytes` bytes: the lengths of
\* (prefix, slice, suffix).  A slice too short to reach the first aligned
\* address is returned whole as the prefix.
AlignTo(bytes) ==
    LET off == AlignOffset(T.align) IN
    IF off > bytes
    THEN [prefix |-> bytes, slice |-> 0, suffix |-> 0]
    ELSE [prefix |-> off,
          slice |-> (bytes - off) \div T.size,
          suffix |-> (bytes - off) % T.size]

\* MemVec::capacity: as_buf().len()
CapacityOf(bytes) == AlignTo(bytes).slice

Capacity == CapacityOf(mmapLen)

\* MemVec::len: the length cell of the memory capability
VecLen == hdr

\* as_slice(): the elements [0, len)
Elems == SubSeq(data, 1, Min(hdr, Len(data)))

\* MmapOptions::map_mut with offset HEADER_LEN and no explicit len: the
\* mapping covers the file from the offset to its end
MapLen(flen) == flen - HEADER_LEN


\* the largest file the disk accepts
DiskLimit == HEADER_LEN + disk * T.size

\* ------------------------------------------------ the call record `last`
\* op: the call (i, v: its index and value arguments, not recorded);
\* out: "ok", "err" (a typed error), "panic" (a fatal fault) or "sigbus";
\* ret: the value returned (-1 for none); p, d, lens: for retain and dedup,
\* the cursors when the scan ended and the values stored to the length cell,
\* in order (lens also for open_or_create); called: the memory capability's reserve or shrink went past its
\* no-op test
Call(op, i, v, out, ret) ==
    [op |-> op, out |-> out, ret |-> ret,
     p |-> 0, d |-> 0, lens |-> <<>>, called |-> FALSE]

\* No call is under way.  v is the value a push under way is writing.  For
\* a shrink under way on the windows path: len_mmap and mmap are what
\* VecFile.len_mmap and MmapFile.mmap map ("file", or "anon" once the file
\* mapping has been released), len is where MmapFile.len points ("mapped",
\* or "dangling": into a released mapping), bytes_len the file length asked
\* for, res the result so far ("ok", or the call whose error it is).
Idle ==
    [at |-> "idle", v |-> 0, len_mmap |-> "file", mmap |-> "file",
     len |-> "mapped", bytes_len |-> 0, res |-> "ok"]

\* ----------------------------------------------- MmapFile (mmap.rs 57-112)
\* The step of reserve or shrink at which the operating system fails.
ReserveFails == {"none", "metadata", "set_len", "metadata2", "map_mut"}
ShrinkFails == {"none", "metadata", "set_len", "map_mut"}

\* the failures that leave the file as it was: a full disk, a refused
\* resize
Refusals == {"none", "set_len"}

\* the state of the file and the mapping as a record
Mem(res, flen, mlen, d, h, called) ==
    [res |-> res, fileLen |-> flen, mmapLen |-> mlen, data |-> d, hdr |-> h,
     called |-> called, half |-> res = "err" /\ called /\ flen # fileLen]

Untouched(res, called) == Mem(res, fileLen, mmapLen, data, hdr, called)

\* map_mut refuses a file shorter than the mapping's offset
MapRefused(flen) == flen < HEADER_LEN

\* the length word after File::set_len(n): it is lost with its bytes
HdrAfter(n) == IF n < HEADER_LEN THEN 0 ELSE hdr

\* MmapFile::reserve(capacity), the operating system failing at step `fail`
MmapFileReserve(capacity, fail) ==
    LET additional_cap == WrappingSub(capacity, mmapLen)
        bytes_len == fileLen + additional_cap
        grown == Resized(data, FileSlotsOf(bytes_len, T.size))
    IN  IF IsNegative(additional_cap) THEN Untouched("ok", FALSE)
        ELSE IF fail \in {"metadata", "set_len"} THEN Untouched("err", TRUE)
        ELSE IF fail \in {"metadata2", "map_mut"} \/ MapRefused(bytes_len)
        THEN Mem("err", bytes_len, mmapLen, grown, hdr, TRUE)
        ELSE Mem("ok", bytes_len, MapLen(bytes_len), grown, hdr, TRUE)

\* a shrink that reports success and does nothing
MmapFileShrinkNothing(capacity, fail) == Untouched("ok", TRUE)

\* MmapFile::shrink(capacity), cfg(not(windows)).  fileLen - redundant_cap is
\* a u64 subtraction: when it underflows a debug build panics and a release
\* build asks set_len for a length near 2^64, which is refused; both leave
\* the file and the mapping as they were ("overflow").
MmapFileShrink(capacity, fail) ==
    LET redundant_cap == WrappingSub(mmapLen, capacity)
        bytes_len == fileLen - redundant_cap
        cut == Resized(data, FileSlotsOf(bytes_len, T.size))
    IN  IF IsNegative(redundant_cap) THEN Untouched("ok", FALSE)
        ELSE IF fail = "metadata" THEN Untouched("err", TRUE)
        ELSE IF redundant_cap > fileLen THEN Untouched("overflow", TRUE)
        ELSE IF fail = "set_len" THEN Untouched("err", TRUE)
        ELSE IF fail = "map_mut" \/ MapRefused(bytes_len)
        THEN Mem("err", bytes_len, mmapLen, cut, HdrAfter(bytes_len), TRUE)
        ELSE Mem("ok", bytes_len, MapLen(bytes_len), cut, hdr, TRUE)

\* VecFile::reserve / VecFile::shrink (cfg(not(windows))) delegate
VecFileReserve(capacity, fail) == MmapFileReserve(capacity, fail)
VecFileShrink(capacity, fail) == MmapFileShrink(capacity, fail)

\* the outcome r is one the run allows: the disk is not full, and the
\* half-done resizes are within their bound
Fits(r) ==
    /\ r.fileLen <= DiskLimit
    /\ r.half => halfDone < MaxHalfDone

HalfDoneAfter(r) == IF r.half THEN halfDone + 1 ELSE halfDone

\* -------------------------------------------------------------- lifecycle
\* every open initialises the file
NeedInitAlways(flen) == TRUE

\* no open initialises the file
NeedInitNever(flen) == FALSE

\* open_or_create: need_init = file.metadata()?.len() == 0
NeedInit(flen) == flen = 0

\* VecFile::clear + VecFile::from_file as called by open_or_create
OpenOrCreate ==
    /\ st = "closed"
    /\ LET need_init == NeedInit(fileLen)
           flen == IF need_init THEN HEADER_LEN ELSE fileLen
           h == IF need_init THEN 0 ELSE hdr
       IN  IF flen < HEADER_LEN
           THEN \* _len_mmap: assert!(file.metadata()?.len() >= HEADER_LEN)
                /\ st' = "closed"
                /\ last' = Call("open_or_create", -1, -1, "panic", -1)
                /\ UNCHANGED <<fileLen, hdr, data, mmapLen>>
           ELSE /\ st' = "open"
                /\ fileLen' = flen
                /\ hdr' = h
                /\ mmapLen' = MapLen(flen)
                /\ last' = [Call("open_or_create", -1, -1, "ok", -1)
                                EXCEPT !.lens = IF need_init THEN <<0>> ELSE <<>>]
                /\ UNCHANGED data
    /\ UNCHANGED <<T, disk, pc, refv, synced, halfDone>>

\* VecFile::open: from_file without the initialisation
Open ==
    /\ st = "closed"
    /\ IF fileLen < HEADER_LEN
       THEN /\ st' = "closed"
            /\ last' = Call("open", -1, -1, "panic", -1)
            /\ UNCHANGED mmapLen
       ELSE /\ st' = "open"
            /\ mmapLen' = MapLen(fileLen)
            /\ last' = Call("open", -1, -1, "ok", -1)
    /\ UNCHANGED <<T, disk, pc, fileLen, hdr, data, refv, synced, halfDone>>

\* MemVec::try_from_memory (Memory::try_into_vec): the error returned, or
\* "ok"
TryFromMemory ==
    IF AlignTo(mmapLen).prefix # 0 THEN "AlignMismatch"
    ELSE IF VecLen > Capacity THEN "SizeMismatch"
    ELSE "ok"

Bind ==
    /\ st = "open"
    /\ fileLen >= HEADER_LEN
    /\ LET r == TryFromMemory IN
        /\ st' = IF r = "ok" THEN "bound" ELSE "open"
        /\ last' = Call("bind", -1, -1, r, -1)
        /\ IF r = "ok" /\ ~synced /\ VecLen <= FileSlots
           THEN refv' = Elems /\ synced' = TRUE
           ELSE UNCHANGED <<refv, synced>>
    /\ UNCHANGED <<T, disk, pc, fileLen, hdr, data, mmapLen, halfDone>>

\* MemVec::into_mem
IntoMem ==
    /\ st = "bound"
    /\ st' = "open"
    /\ last' = Call("into_mem", -1, -1, "ok", -1)
    /\ UNCHANGED <<T, disk, pc, fileLen, hdr, data, mmapLen, refv, synced, halfDone>>

\* the VecFile (or the MemVec owning it) is dropped: the mappings and the
\* file handle are released, the file stays
Close ==
    /\ st \in {"open", "bound"}
    /\ st' = "closed"
    /\ last' = Call("close", -1, -1, "ok", -1)
    /\ UNCHANGED <<T, disk, pc, fileLen, hdr, data, mmapLen, refv, synced, halfDone>>


\* ------------------------------------------------ MemVec: the RawVec part
\* no floor under the first capacity
MinNonZeroCapOne(size) == 1

\* MIN_NON_ZERO_CAP
MinNonZeroCap(size) == IF size = 1 THEN 8 ELSE IF size <= 1024 THEN 4 ELSE 1

\* MemVec::needs_to_grow
NeedsToGrow(len, additional) == additional > WrappingSub(Capacity, len)

\* cap * size_of::<T>() as a usize
BytesOf(cap) == (cap * T.size) % UsizeMod

\* a growth to just the capacity required
GrowAmortizedRequired(len, additional, fail) ==
    VecFileReserve(BytesOf(len + additional), fail)

\* MemVec::grow_amortized: checked_add or capacity_overflow(), then
\* mem.reserve
GrowAmortized(len, additional, fail) ==
    LET required_cap == len + additional
        cap == Max(MinNonZeroCap(T.size), Max(Capacity * 2, required_cap))
    IN  IF required_cap >= UsizeMod THEN Untouched("panic", FALSE)
        ELSE VecFileReserve(BytesOf(cap), fail)

\* MemVec::grow_exact
GrowExact(len, additional, fail) ==
    LET cap == len + additional
    IN  IF cap >= UsizeMod THEN Untouched("panic", FALSE)
        ELSE VecFileReserve(BytesOf(cap), fail)

\* MemVec::reserve_for_push
ReserveForPush(len, fail) == GrowAmortized(len, 1, fail)

\* MemVec::try_reserve / try_reserve_exact
TryReserve(additional, fail) ==
    IF NeedsToGrow(VecLen, additional)
    THEN GrowAmortized(VecLen, additional, fail)
    ELSE Untouched("ok", FALSE)

TryReserveExact(additional, fail) ==
    IF NeedsToGrow(VecLen, additional)
    THEN GrowExact(VecLen, additional, fail)
    ELSE Untouched("ok", FALSE)

\* a copy that moves nothing
PtrCopyNothing(buf, src, dst, count) == buf

\* a copy that runs forward slot by slot whatever the overlap, as
\* copy_nonoverlapping may
PtrCopyForward(buf, src, dst, count) ==
    [k \in DOMAIN buf |->
        IF k >= dst /\ k < dst + count
        THEN IF src < dst THEN buf[src + ((k - dst) % (dst - src))]
             ELSE buf[src + (k - dst)]
        ELSE buf[k]]

\* ptr::copy(src, dst, count) on slots (memmove: the source is read whole
\* before the destination is written)
PtrCopy(buf, src, dst, count) ==
    [k \in DOMAIN buf |->
        IF k >= dst /\ k < dst + count THEN buf[src + (k - dst)] ELSE buf[k]]

\* a write that stores nothing
PtrWriteNothing(buf, slot, v) == buf

PtrWrite(buf, slot, v) == [buf EXCEPT ![slot] = v]

\* The slots 1..n of the outcome r lie inside the mapping and inside the
\* file.  The page granularity of a mapping is not modelled: an access past
\* the end of the file is fatal (SIGBUS), as is one to a lost length word.
Backed(r, n) ==
    /\ r.fileLen >= HEADER_LEN
    /\ n <= FileSlotsOf(r.fileLen, T.size)
    /\ n * T.size <= r.mmapLen

\* a call that, when it returns, gives back the capacity the new length
\* does not need
CommitTrimmed(rec, r, newData, newHdr) ==
    /\ st' = "bound"
    /\ fileLen' = Min(r.fileLen, HEADER_LEN + newHdr * T.size)
    /\ mmapLen' = Min(r.mmapLen, newHdr * T.size)
    /\ data' = SubSeq(newData, 1, Min(Len(newData), newHdr))
    /\ hdr' = newHdr
    /\ last' = [rec EXCEPT !.called = TRUE]
    /\ halfDone' = HalfDoneAfter(r)
    /\ pc' = Idle
    /\ T' = T
    /\ disk' = disk

\* --------------------------------------------- how a container call ends
\* the call returns or panics; the container lives on
Commit(rec, r, newData, newHdr) ==
    /\ st' = "bound"
    /\ fileLen' = r.fileLen
    /\ mmapLen' = r.mmapLen
    /\ data' = newData
    /\ hdr' = newHdr
    /\ last' = rec
    /\ halfDone' = HalfDoneAfter(r)
    /\ pc' = Idle
    /\ T' = T
    /\ disk' = disk

\* the process is killed by SIGBUS; the file stays as the call left it
Crash(op, r) ==
    /\ st' = "closed"
    /\ fileLen' = r.fileLen
    /\ mmapLen' = r.mmapLen
    /\ data' = r.data
    /\ hdr' = r.hdr
    /\ last' = Call(op, -1, -1, "sigbus", -1)
    /\ halfDone' = HalfDoneAfter(r)
    /\ pc' = Idle
    /\ T' = T
    /\ disk' = disk
    /\ refv' = <<>>
    /\ synced' = FALSE

\* the reference sequence after the call
Ref(newRef) ==
    /\ refv' = newRef
    /\ synced' = synced

Same == Untouched("ok", FALSE)

\* The reference sequence (a plain sequence, 0-based index i): the element
\* at i taken out; the last element moved to i; v put in at i.
RefRemove(s, i) ==
    IF i >= Len(s) THEN s ELSE SubSeq(s, 1, i) \o SubSeq(s, i + 2, Len(s))

RefSwapRemove(s, i) ==
    IF i >= Len(s) THEN s
    ELSE IF i + 1 = Len(s) THEN SubSeq(s, 1, i)
    ELSE SubSeq([s EXCEPT ![i + 1] = s[Len(s)]], 1, Len(s) - 1)

RefInsert(s, i, v) ==
    IF i > Len(s) THEN s
    ELSE SubSeq(s, 1, i) \o <<v>> \o SubSeq(s, i + 1, Len(s))

RefPop(s) == IF s = <<>> THEN s ELSE SubSeq(s, 1, Len(s) - 1)

RefLast(s) == IF s = <<>> THEN -1 ELSE s[Len(s)]

RefTruncate(s, n) == IF n >= Len(s) THEN s ELSE SubSeq(s, 1, n)

\* ------------------------------------------------------ MemVec operations
\* an error handed on to the caller, as `?` would
UnwrapPropagates(res) == res

\* Result::unwrap on the outcome of reserve_for_push: an Err panics
Unwrap(res) == IF res = "ok" THEN "ok" ELSE "panic"

\* MemVec::push
Push(v, fail) ==
    /\ st = "bound"
    /\ LET len == VecLen
           grows == len = Capacity
           r == IF grows THEN ReserveForPush(len, fail) ELSE Same
       IN  /\ (grows \/ fail = "none")
           /\ Fits(r)
           /\ IF ~Backed(r, 0) THEN Crash("push", r)
              ELSE IF r.res # "ok"
              THEN \* reserve_for_push(..).unwrap()
                   /\ Commit([Call("push", -1, v, Unwrap(r.res), -1)
                                EXCEPT !.called = r.called],
                             r, r.data, r.hdr)
                   /\ Ref(refv)
              ELSE IF ~Backed(r, len + 1) THEN Crash("push", r)
              ELSE /\ Commit([Call("push", -1, v, "ok", -1) EXCEPT !.called = r.called],
                             r, PtrWrite(r.data, len + 1, v), len + 1)
                   /\ Ref(Append(refv, v))

\* MemVec::push step by step.  First `if self.len() == self.capacity()
\* { self.reserve_for_push(self.len()).unwrap(); }`
PushGrow(v, fail) ==
    /\ st = "bound"
    /\ pc = Idle
    /\ LET len == VecLen
           grows == len = Capacity
           r == IF grows THEN ReserveForPush(len, fail) ELSE Same
       IN  /\ (grows \/ fail = "none")
           /\ Fits(r)
           /\ IF ~Backed(r, 0) THEN Crash("push", r)
              ELSE IF r.res # "ok"
              THEN /\ Commit([Call("push", -1, v, Unwrap(r.res), -1)
                                EXCEPT !.called = r.called],
                             r, r.data, r.hdr)
                   /\ Ref(refv)
              ELSE /\ st' = "bound"
                   /\ fileLen' = r.fileLen
                   /\ mmapLen' = r.mmapLen
                   /\ data' = r.data
                   /\ hdr' = r.hdr
                   /\ halfDone' = HalfDoneAfter(r)
                   /\ pc' = [Idle EXCEPT !.at = "write", !.v = v]
                   /\ last' = [Call("push", -1, v, "grown", -1)
                                 EXCEPT !.called = r.called]
                   /\ Ref(refv)
                   /\ UNCHANGED <<T, disk>>

\* then `ptr::write(self.as_mut_ptr().add(self.len()), value)`
PushWrite ==
    /\ st = "bound"
    /\ pc.at = "write"
    /\ IF ~Backed(Same, VecLen + 1) THEN Crash("push", Same)
       ELSE /\ data' = PtrWrite(data, VecLen + 1, pc.v)
            /\ pc' = [pc EXCEPT !.at = "len"]
            /\ last' = [last EXCEPT !.out = "written"]
            /\ Ref(refv)
            /\ UNCHANGED <<T, disk, st, fileLen, hdr, mmapLen, halfDone>>

\* then `*self.mem.len_mut() += 1`
PushLen ==
    /\ st = "bound"
    /\ pc.at = "len"
    /\ hdr' = hdr + 1
    /\ pc' = Idle
    /\ last' = [last EXCEPT !.out = "ok"]
    /\ Ref(Append(refv, pc.v))
    /\ UNCHANGED <<T, disk, st, fileLen, data, mmapLen, halfDone>>

\* the process is killed between two steps; the file stays as it is
Kill ==
    /\ st = "bound"
    /\ st' = "closed"
    /\ pc' = Idle
    /\ last' = Call("kill", -1, -1, "ok", -1)
    /\ UNCHANGED <<T, disk, fileLen, hdr, data, mmapLen, refv, synced, halfDone>>

\* MemVec::pop
Pop ==
    /\ st = "bound"
    /\ IF ~Backed(Same, VecLen) THEN Crash("pop", Same)
       ELSE IF VecLen = 0
       THEN /\ Commit(Call("pop", -1, -1, "ok", -1), Same, data, hdr)
            /\ Ref(refv)
       ELSE /\ Commit(Call("pop", -1, -1, "ok", data[hdr]), Same, data, hdr - 1)
            /\ Ref(RefPop(refv))

\* a truncate that stores whatever length it is given
TruncateLenGiven(len, n) == n

\* truncate: `if len > self.len() { return; }`, else the length cell is set
TruncateLen(len, n) == IF n > len THEN len ELSE n

\* MemVec::truncate (drop_in_place of Copy elements does nothing)
Truncate(n) ==
    /\ st = "bound"
    /\ IF ~Backed(Same, 0) THEN Crash("truncate", Same)
       ELSE /\ Commit(Call("truncate", n, -1, "ok", -1), Same, data,
                      TruncateLen(VecLen, n))
            /\ Ref(RefTruncate(refv, n))

\* MemVec::clear
Clear ==
    /\ st = "bound"
    /\ IF ~Backed(Same, 0) THEN Crash("clear", Same)
       ELSE /\ Commit(Call("clear", -1, -1, "ok", -1), Same, data,
                      TruncateLen(VecLen, 0))
            /\ Ref(<<>>)

\* a set_len without its check
SetLenUnchecked(len, cap) == FALSE

\* set_len: `if len > cap { assert_failed(len, cap); }`
SetLenFails(len, cap) == len > cap

\* MemVec::set_len (unsafe): the check against the capacity, then the store
\* to the length cell.  The reference takes over the slots a longer length
\* exposes.
SetLen(n) ==
    /\ st = "bound"
    /\ IF SetLenFails(n, Capacity)
       THEN /\ Commit(Call("set_len", n, -1, "panic", -1), Same, data, hdr)
            /\ Ref(refv)
       ELSE IF ~Backed(Same, 0) THEN Crash("set_len", Same)
       ELSE /\ Commit(Call("set_len", n, -1, "ok", -1), Same, data, n)
            /\ Ref(IF n <= Len(refv) THEN SubSeq(refv, 1, n)
                   ELSE refv \o SubSeq(data, Len(refv) + 1, Min(n, Len(data))))

\* MemVec::swap_remove: the bounds check, the copy of the last element, then
\* set_len (which panics when the new length exceeds the capacity)
SwapRemove(i) ==
    /\ st = "bound"
    /\ LET len == VecLen
           moved == PtrCopy(data, len, i + 1, 1)
       IN  IF ~Backed(Same, len) THEN Crash("swap_remove", Same)
           ELSE IF i >= len
           THEN /\ Commit(Call("swap_remove", i, -1, "panic", -1), Same, data, hdr)
                /\ Ref(refv)
           ELSE IF len - 1 > Capacity
           THEN /\ Commit(Call("swap_remove", i, -1, "panic", -1), Same, moved, hdr)
                /\ Ref(refv)
           ELSE /\ Commit(Call("swap_remove", i, -1, "ok", data[i + 1]), Same, moved, len - 1)
                /\ Ref(RefSwapRemove(refv, i))

\* MemVec::remove
Remove(i) ==
    /\ st = "bound"
    /\ LET len == VecLen
           moved == PtrCopy(data, i + 2, i + 1, len - i - 1)
       IN  IF ~Backed(Same, len) THEN Crash("remove", Same)
           ELSE IF i >= len
           THEN /\ Commit(Call("remove", i, -1, "panic", -1), Same, data, hdr)
                /\ Ref(refv)
           ELSE IF len - 1 > Capacity
           THEN /\ Commit(Call("remove", i, -1, "panic", -1), Same, moved, hdr)
                /\ Ref(refv)
           ELSE /\ Commit(Call("remove", i, -1, "ok", data[i + 1]), Same, moved, len - 1)
                /\ Ref(RefRemove(refv, i))

\* MemVec::insert: the bounds check, reserve(1) when full, the shift, the
\* write, then set_len
Insert(i, v, fail) ==
    /\ st = "bound"
    /\ LET len == VecLen
           full == len = Capacity
           r == IF full /\ i <= len THEN TryReserve(1, fail) ELSE Same
           moved == PtrWrite(PtrCopy(r.data, i + 1, i + 2, len - i), i + 1, v)
       IN  /\ ((full /\ i <= len) \/ fail = "none")
           /\ Fits(r)
           /\ IF ~Backed(r, 0) THEN Crash("insert", r)
              ELSE IF i > len
              THEN /\ Commit(Call("insert", i, v, "panic", -1), Same, data, hdr)
                   /\ Ref(refv)
              ELSE IF r.res # "ok"
              THEN \* try_reserve(1).expect("reserve failed")
                   /\ Commit([Call("insert", i, v, "panic", -1) EXCEPT !.called = r.called],
                             r, r.data, r.hdr)
                   /\ Ref(refv)
              ELSE IF ~Backed(r, len + 1) THEN Crash("insert", r)
              ELSE IF len + 1 > CapacityOf(r.mmapLen)
              THEN /\ Commit([Call("insert", i, v, "panic", -1) EXCEPT !.called = r.called],
                             r, moved, r.hdr)
                   /\ Ref(refv)
              ELSE /\ Commit([Call("insert", i, v, "ok", -1) EXCEPT !.called = r.called],
                             r, moved, len + 1)
                   /\ Ref(RefInsert(refv, i, v))


\* ------------------------------------------------------ retain, retain_mut
\* The predicate is given by its verdicts in call order: f[k] is what the
\* k-th call returns; the call after the last verdict panics.

\* the guard BackshiftOnDrop plus the buffer it works on; calls: the indexes
\* the predicate has been called on, in call order
Guard(buf, processed_len, deleted_cnt, original_len) ==
    [buf |-> buf, processed_len |-> processed_len, deleted_cnt |-> deleted_cnt,
     original_len |-> original_len, panicked |-> FALSE, calls |-> <<>>]

\* process_loop::<DELETED>
RECURSIVE ProcessLoop(_, _, _)
ProcessLoop(g, f, DELETED) ==
    LET call == Len(g.calls) + 1
        called == [g EXCEPT !.calls = Append(@, g.processed_len)]
    IN  IF g.processed_len = g.original_len THEN g
        ELSE IF call > Len(f) THEN [called EXCEPT !.panicked = TRUE]
        ELSE IF ~f[call]
        THEN LET g2 == [called EXCEPT !.processed_len = @ + 1,
                                      !.deleted_cnt = @ + 1]
             IN  IF DELETED THEN ProcessLoop(g2, f, DELETED) ELSE g2
        ELSE LET hole_slot == g.processed_len - g.deleted_cnt + 1
                 g2 == [called EXCEPT
                          !.buf = IF DELETED
                                  THEN PtrCopy(@, g.processed_len + 1, hole_slot, 1)
                                  ELSE @,
                          !.processed_len = @ + 1]
             IN  ProcessLoop(g2, f, DELETED)

\* a guard that leaves the length as it was before the scan
BackshiftLenKept(g) == g.original_len

\* a guard that sets the length to the elements kept so far
BackshiftLenProcessed(g) == g.processed_len - g.deleted_cnt

\* BackshiftOnDrop::drop: the buffer and the length it sets
BackshiftLen(g) == g.original_len - g.deleted_cnt

\* a guard that shifts nothing
BackshiftNothing(g) == g.buf

BackshiftOnDrop(g) ==
    IF g.deleted_cnt > 0
    THEN PtrCopy(g.buf, g.processed_len + 1,
                 g.processed_len - g.deleted_cnt + 1,
                 g.original_len - g.processed_len)
    ELSE g.buf

\* retain_mut: stage 1, stage 2 (skipped when stage 1 panicked), the guard
RetainMut(buf, original_len, f) ==
    LET g0 == Guard(buf, 0, 0, original_len)
        g1 == ProcessLoop(g0, f, FALSE)
        g2 == IF g1.panicked THEN g1 ELSE ProcessLoop(g1, f, TRUE)
    IN  [buf |-> BackshiftOnDrop(g2), len |-> BackshiftLen(g2),
         p |-> g2.processed_len, d |-> g2.deleted_cnt, panicked |-> g2.panicked,
         calls |-> g2.calls, lens |-> <<0, BackshiftLen(g2)>>]

\* the verdict sequences for a vector of n elements: one verdict per
\* element, or fewer and then a panic
Verdicts(n) == UNION { [1 .. k -> BOOLEAN] : k \in 0 .. n }

\* reference: the elements the predicate did not reject, in order
RefKept(s, f) ==
    LET F[k \in 0 .. Len(s)] ==
            IF k = 0 THEN <<>>
            ELSE IF k > Len(f) \/ f[k] THEN Append(F[k - 1], s[k]) ELSE F[k - 1]
    IN  F[Len(s)]

\* MemVec::retain / MemVec::retain_mut
Retain(f) ==
    /\ st = "bound"
    /\ f \in Verdicts(VecLen)
    /\ IF ~Backed(Same, VecLen) THEN Crash("retain", Same)
       ELSE LET r == RetainMut(data, VecLen, f)
            IN  /\ Commit([Call("retain", -1, -1,
                                IF r.panicked THEN "panic" ELSE "ok", -1)
                             EXCEPT !.p = r.p, !.d = r.d, !.lens = r.lens],
                          Same, r.buf, r.len)
                /\ Ref(RefKept(refv, f))

\* ------------------------------------------- dedup, dedup_by, dedup_by_key
\* same_bucket(a, b) at its call-th call: == for dedup, equal keys for
\* dedup_by_key (key = parity), the given verdict for dedup_by
Key(v) == v % 2

\* a comparator that never finds two elements equal
SameBucketNever(cmp, call, a, b) == FALSE

SameBucket(cmp, call, a, b) ==
    IF cmp.kind = "dedup" THEN a = b
    ELSE IF cmp.kind = "dedup_by_key" THEN Key(a) = Key(b)
    ELSE cmp.f[call]

\* the call-th call of same_bucket panics
Aborts(cmp, call) == cmp.kind = "dedup_by" /\ call > Len(cmp.f)

\* the while loop of dedup_by over gap = FillGapOnDrop (read, write) and the
\* buffer; `read` is also the number of the comparator call
RECURSIVE DedupLoop(_, _, _)
DedupLoop(gap, len, cmp) ==
    IF ~(gap.read < len) THEN gap
    ELSE IF Aborts(cmp, gap.read) THEN [gap EXCEPT !.panicked = TRUE]
    ELSE IF SameBucket(cmp, gap.read, gap.buf[gap.read + 1], gap.buf[gap.write])
    THEN DedupLoop([gap EXCEPT !.read = @ + 1], len, cmp)
    ELSE DedupLoop([gap EXCEPT !.buf = PtrCopy(@, gap.read + 1, gap.write + 1, 1),
                               !.write = @ + 1,
                               !.read = @ + 1], len, cmp)

\* a guard that leaves the gap open and the length as it was
FillGapNothing(gap, len) == [buf |-> gap.buf, len |-> len]

\* FillGapOnDrop::drop: runs when same_bucket panics
FillGapOnDrop(gap, len) ==
    LET items_left == WrappingSub(len, gap.read)
        dropped == WrappingSub(gap.read, gap.write)
    IN  [buf |-> PtrCopy(gap.buf, gap.read + 1, gap.write + 1, items_left),
         len |-> len - dropped]

\* dedup_by on a vector of len > 1 elements
DedupBy(buf, len, cmp) ==
    LET gap == DedupLoop([buf |-> buf, read |-> 1, write |-> 1, panicked |-> FALSE],
                         len, cmp)
        fin == IF gap.panicked THEN FillGapOnDrop(gap, len)
               ELSE [buf |-> gap.buf, len |-> gap.write]
    IN  [buf |-> fin.buf, len |-> fin.len, read |-> gap.read, write |-> gap.write,
         panicked |-> gap.panicked]

\* the comparators for a vector of n elements
Comparators(n) ==
    { [kind |-> "dedup", f |-> <<>>], [kind |-> "dedup_by_key", f |-> <<>>] }
    \cup { [kind |-> "dedup_by", f |-> f] :
           f \in UNION { [1 .. k -> BOOLEAN] : k \in 0 .. Max(n - 1, 0) } }

\* reference: every element not judged equal to the element kept before it
RefDedup(s, cmp) ==
    LET F[k \in 0 .. Len(s)] ==
            IF k = 0 THEN <<>>
            ELSE IF k = 1 THEN <<s[1]>>
            ELSE IF (\A c \in 1 .. k - 1 : ~Aborts(cmp, c))
                    /\ SameBucket(cmp, k - 1, s[k], F[k - 1][Len(F[k - 1])])
            THEN F[k - 1]
            ELSE Append(F[k - 1], s[k])
    IN  F[Len(s)]

\* MemVec::dedup / dedup_by / dedup_by_key
Dedup(cmp) ==
    /\ st = "bound"
    /\ cmp \in Comparators(VecLen)
    /\ IF ~Backed(Same, VecLen) THEN Crash(cmp.kind, Same)
       ELSE IF VecLen <= 1
       THEN /\ Commit(Call(cmp.kind, -1, -1, "ok", -1), Same, data, hdr)
            /\ Ref(refv)
       ELSE LET r == DedupBy(data, VecLen, cmp)
            IN  /\ Commit([Call(cmp.kind, -1, -1,
                                IF r.panicked THEN "panic" ELSE "ok", -1)
                             EXCEPT !.p = r.read, !.d = r.write, !.lens = <<r.len>>],
                          Same, r.buf, r.len)
                /\ Ref(RefDedup(refv, cmp))


\* ------------------------------------------------- capacity of the MemVec
ReserveKinds == {"reserve", "try_reserve", "reserve_exact", "try_reserve_exact"}

\* MemVec::reserve / try_reserve / reserve_exact / try_reserve_exact: the
\* try_ forms return the capability's error, the others expect() it
Reserve(kind, additional, fail) ==
    /\ st = "bound"
    /\ LET r == IF kind \in {"reserve", "try_reserve"}
                THEN TryReserve(additional, fail)
                ELSE TryReserveExact(additional, fail)
           out == IF r.res = "ok" THEN "ok"
                  ELSE IF r.res = "err" /\ kind \in {"try_reserve", "try_reserve_exact"}
                  THEN "err"
                  ELSE "panic"
       IN  /\ (r.called \/ fail = "none")
           /\ Fits(r)
           /\ IF ~Backed(r, 0) THEN Crash(kind, r)
              ELSE /\ Commit([Call(kind, additional, -1, out, -1)
                                EXCEPT !.called = r.called],
                             r, r.data, r.hdr)
                   /\ Ref(refv)

\* MemVec::shrink_to_fit
ShrinkToFit(fail) ==
    /\ st = "bound"
    /\ LET len == VecLen
           r == IF Capacity > len THEN VecFileShrink(BytesOf(len), fail) ELSE Same
       IN  /\ (r.called \/ fail = "none")
           /\ Fits(r)
           /\ IF ~Backed(Same, 0) THEN Crash("shrink_to_fit", Same)
              ELSE /\ Commit([Call("shrink_to_fit", -1, -1,
                                   IF r.res = "ok" THEN "ok" ELSE "panic", -1)
                                EXCEPT !.called = r.called],
                             r, r.data, r.hdr)
                   /\ Ref(refv)

\* shrink_to without the max: the capacity asked for is min_capacity
ShrinkToCapBare(len, min_capacity) == min_capacity

\* shrink_to: new_cap = cmp::max(self.len(), min_capacity)
ShrinkToCap(len, min_capacity) == Max(len, min_capacity)

\* MemVec::shrink_to
ShrinkTo(min_capacity, fail) ==
    /\ st = "bound"
    /\ LET new_cap == ShrinkToCap(VecLen, min_capacity)
           r == IF Capacity > min_capacity
                THEN VecFileShrink(BytesOf(new_cap), fail)
                ELSE Same
       IN  /\ (r.called \/ fail = "none")
           /\ Fits(r)
           /\ IF ~Backed(Same, 0) THEN Crash("shrink_to", Same)
              ELSE /\ Commit([Call("shrink_to", min_capacity, -1,
                                   IF r.res = "ok" THEN "ok" ELSE "panic", -1)
                                EXCEPT !.called = r.called],
                             r, r.data, r.hdr)
                   /\ Ref(refv)

\* extend_with: the n values of the generator written at len, len+1, ...
RECURSIVE ExtendWith(_, _, _)
ExtendWith(buf, len, vs) ==
    IF vs = <<>> THEN buf
    ELSE ExtendWith(PtrWrite(buf, len + 1, Head(vs)), len + 1, Tail(vs))

\* MemVec::resize_with(new_len, f), f yielding the values vs
ResizeWith(new_len, vs, fail) ==
    /\ st = "bound"
    /\ LET len == VecLen
           n == new_len - len
           r == IF new_len > len THEN TryReserve(n, fail) ELSE Same
       IN  /\ Len(vs) = Max(n, 0)
           /\ (r.called \/ fail = "none")
           /\ Fits(r)
           /\ IF ~Backed(r, 0) THEN Crash("resize_with", r)
              ELSE IF new_len <= len
              THEN /\ Commit(Call("resize_with", new_len, -1, "ok", -1), Same, data, new_len)
                   /\ Ref(RefTruncate(refv, new_len))
              ELSE IF r.res # "ok"
              THEN /\ Commit([Call("resize_with", new_len, -1, "panic", -1)
                                EXCEPT !.called = r.called],
                             r, r.data, r.hdr)
                   /\ Ref(refv)
              ELSE IF ~Backed(r, new_len) THEN Crash("resize_with", r)
              ELSE /\ Commit([Call("resize_with", new_len, -1, "ok", -1)
                                EXCEPT !.called = r.called],
                             r, ExtendWith(r.data, len, vs), new_len)
                   /\ Ref(refv \o vs)

\* ------------------------------- the capability used directly (as_mem_mut)
\* byte targets: whole numbers of elements, and the mapped extent itself
Targets == { c * T.size : c \in 0 .. MaxInitSlots + 1 } \cup {mmapLen}

\* the container the reference followed is gone
Unsynced ==
    /\ refv' = <<>>
    /\ synced' = FALSE

\* VecFile::reserve called on the unbound capability
MemReserve(capacity, fail) ==
    /\ st = "open"
    /\ LET r == VecFileReserve(capacity, fail)
       IN  /\ (r.called \/ fail = "none")
           /\ Fits(r)
           /\ fileLen' = r.fileLen
           /\ mmapLen' = r.mmapLen
           /\ data' = r.data
           /\ hdr' = r.hdr
           /\ halfDone' = HalfDoneAfter(r)
           /\ last' = [Call("mem.reserve", capacity, -1, r.res, -1)
                         EXCEPT !.called = r.called]
    /\ Unsynced
    /\ UNCHANGED <<T, disk, pc, st>>

\* VecFile::shrink called on the unbound capability
MemShrink(capacity, fail) ==
    /\ st = "open"
    /\ LET r == VecFileShrink(capacity, fail)
       IN  /\ (r.called \/ fail = "none")
           /\ Fits(r)
           /\ fileLen' = r.fileLen
           /\ mmapLen' = r.mmapLen
           /\ data' = r.data
           /\ hdr' = r.hdr
           /\ halfDone' = HalfDoneAfter(r)
           /\ last' = [Call("mem.shrink", capacity, -1, r.res, -1)
                         EXCEPT !.called = r.called]
    /\ Unsynced
    /\ UNCHANGED <<T, disk, pc, st>>

\* ---------------------------------------- shrink on the windows path
\* an assignment to a mapping field that keeps the old mapping alive
MapAnonKeeps(old) == old

\* `self.len_mmap = MmapOptions::new().len(0).map_anon()?`, and the same
\* for self.mmap: the field holds an anonymous mapping and the file mapping
\* it held is dropped
MapAnon(old) == "anon"

\* `.expect("mmap is broken")` / `.expect("broken mmap")` on a failed
\* remap: the shrink ends with a panic, whatever set_len returned, and the
\* VecFile is dropped by the unwinding
WinFailed ==
    /\ st' = "closed"
    /\ pc' = Idle
    /\ last' = Call("win.shrink", -1, -1, "panic", -1)
    /\ Unsynced
    /\ UNCHANGED <<T, disk, fileLen, hdr, data, mmapLen, halfDone>>

\* VecFile::shrink, cfg(windows): the header mapping is released first
WinReleaseHeader(capacity, fail) ==
    /\ st = "open"
    /\ pc = Idle
    /\ IF fail = "map_anon"
       THEN /\ pc' = Idle
            /\ last' = Call("win.shrink", capacity, -1, "err", -1)
       ELSE /\ pc' = [Idle EXCEPT !.at = "shrink",
                                  !.len_mmap = MapAnon(@),
                                  !.len = IF MapAnon(pc.len_mmap) = "anon"
                                          THEN "dangling" ELSE @,
                                  !.bytes_len = capacity]
            /\ last' = Call("win.shrink", capacity, -1, "running", -1)
    /\ Unsynced
    /\ UNCHANGED <<T, disk, st, fileLen, hdr, data, mmapLen, halfDone>>

\* MmapFile::shrink, cfg(windows), up to the release of the data mapping:
\* the no-op test, metadata()?, map_anon()?.  (pc.bytes_len holds the
\* capacity asked for until bytes_len is computed.)
WinReleaseData(fail) ==
    /\ st = "open"
    /\ pc.at = "shrink"
    /\ LET redundant_cap == WrappingSub(mmapLen, pc.bytes_len)
           bytes_len == fileLen - redundant_cap
       IN  IF IsNegative(redundant_cap)
           THEN /\ fail = "none"
                /\ pc' = [pc EXCEPT !.at = "remap_hdr", !.res = "ok"]
                /\ UNCHANGED mmapLen
           ELSE IF fail \in {"metadata", "map_anon"}
           THEN /\ pc' = [pc EXCEPT !.at = "remap_hdr", !.res = fail]
                /\ UNCHANGED mmapLen
           ELSE /\ redundant_cap <= fileLen    \* the u64 subtraction does not
                                               \* underflow: the mapping is
                                               \* never longer than the file
                /\ pc' = [pc EXCEPT !.at = "truncate", !.mmap = MapAnon(@),
                                    !.bytes_len = bytes_len]
                /\ mmapLen' = IF MapAnon(pc.mmap) = "anon" THEN 0 ELSE mmapLen
    /\ last' = [last EXCEPT !.called = ~IsNegative(WrappingSub(mmapLen, pc.bytes_len))]
    /\ UNCHANGED <<T, disk, st, fileLen, hdr, data, refv, synced, halfDone>>

\* `let set_len_result = self.file.set_len(bytes_len);`
WinTruncate(fail) ==
    /\ st = "open"
    /\ pc.at = "truncate"
    /\ IF fail = "set_len"
       THEN /\ pc' = [pc EXCEPT !.at = "remap", !.res = "set_len"]
            /\ UNCHANGED <<fileLen, hdr, data>>
       ELSE /\ pc' = [pc EXCEPT !.at = "remap", !.res = "ok"]
            /\ fileLen' = pc.bytes_len
            /\ data' = Resized(data, FileSlotsOf(pc.bytes_len, T.size))
            /\ hdr' = HdrAfter(pc.bytes_len)
    /\ UNCHANGED <<T, disk, st, mmapLen, refv, synced, halfDone, last>>

\* `self.mmap = unsafe { self.options.map_mut(&self.file).expect("mmap is
\* broken") }; set_len_result?;`
WinRemapData(fail) ==
    /\ st = "open"
    /\ pc.at = "remap"
    /\ IF fail = "map_mut" \/ MapRefused(fileLen)
       THEN WinFailed
       ELSE /\ pc' = [pc EXCEPT !.at = "remap_hdr", !.mmap = "file"]
            /\ mmapLen' = MapLen(fileLen)
            /\ UNCHANGED <<T, disk, st, fileLen, hdr, data, refv, synced,
                           halfDone, last>>

\* back in VecFile::shrink: `self.len_mmap = Self::_len_mmap(self.file())
\* .expect("broken mmap"); self.mmap_file.len = ...; shrink_result`
WinRemapHeader(fail) ==
    /\ st = "open"
    /\ pc.at = "remap_hdr"
    /\ IF fail = "map_mut" \/ fileLen < HEADER_LEN
       THEN WinFailed
       ELSE /\ pc' = [pc EXCEPT !.at = "idle", !.len_mmap = "file",
                                !.len = "mapped", !.bytes_len = 0, !.res = "ok"]
            /\ last' = [last EXCEPT !.out = IF pc.res = "ok" THEN "ok" ELSE "err",
                                    !.ret = IF pc.res = "ok" THEN -1 ELSE 0]
            /\ UNCHANGED <<T, disk, st, fileLen, hdr, data, mmapLen, refv, synced,
                           halfDone>>

\* ------------------------------------------------------------ the machine
\* Before the first open there is no file (or an empty one).  The element
\* type is Record, whose alignment divides HEADER_LEN: the data region starts
\* aligned for it.  The types for which it does not are bound under SpecMem.
Init ==
    /\ T = Record
    /\ disk = MaxCap
    /\ st = "closed"
    /\ fileLen = 0
    /\ hdr = 0
    /\ data = <<>>
    /\ mmapLen = 0
    /\ refv = <<>>
    /\ synced = TRUE
    /\ halfDone = 0
    /\ pc = Idle
    /\ last = Call("init", -1, -1, "ok", -1)

\* The files a capability may be opened on: none or an empty one, one
\* shorter than a header, or a header and a data region of any byte length
\* holding anything.
InitFiles ==
    { [fileLen |-> 0, hdr |-> 0, data |-> <<>>] }
    \cup { [fileLen |-> HEADER_LEN \div 2, hdr |-> 0, data |-> <<>>] }
    \cup UNION { { [fileLen |-> HEADER_LEN + n * T.size + b, hdr |-> h, data |-> d] :
                    b \in 0 .. 1, h \in 0 .. MaxInitSlots + 1, d \in [1 .. n -> Stored] } :
                  n \in 0 .. MaxInitSlots }

InitMem ==
    /\ T \in ElemTypes
    /\ disk = MaxCap
    /\ st = "closed"
    /\ \E f \in InitFiles :
        /\ fileLen = f.fileLen
        /\ hdr = f.hdr
        /\ data = f.data
    /\ mmapLen = 0
    /\ refv = <<>>
    /\ synced = FALSE
    /\ halfDone = 0
    /\ pc = Idle
    /\ last = Call("init", -1, -1, "ok", -1)

Next ==
    \/ OpenOrCreate
    \/ Open
    \/ Bind
    \/ IntoMem
    \/ Close
    \/ \E v \in Vals, fail \in Refusals : Push(v, fail)
    \/ Pop
    \/ \E n \in 0 .. VecLen + 1 : Truncate(n)
    \/ Clear
    \/ \E i \in 0 .. VecLen : SwapRemove(i)
    \/ \E i \in 0 .. VecLen : Remove(i)
    \/ \E i \in 0 .. VecLen + 1, v \in Vals, fail \in Refusals : Insert(i, v, fail)
    \/ \E f \in Verdicts(VecLen) : Retain(f)
    \/ \E cmp \in Comparators(VecLen) : Dedup(cmp)
    \/ \E kind \in ReserveKinds, a \in 0 .. MaxCap + 1, fail \in Refusals :
            Reserve(kind, a, fail)
    \/ \E fail \in Refusals : ShrinkToFit(fail)
    \/ \E m \in 0 .. MaxCap + 1, fail \in Refusals : ShrinkTo(m, fail)
    \/ \E n \in 0 .. MaxCap, fail \in Refusals :
            \E vs \in [1 .. Max(n - VecLen, 0) -> Vals] : ResizeWith(n, vs, fail)

Spec == Init /\ [][Next]_vars

\* The capability alone: the file opened, the capability resized directly,
\* bound and released, with no element operation.
NextMem ==
    \/ OpenOrCreate
    \/ Open
    \/ Bind
    \/ IntoMem
    \/ Close
    \/ \E c \in Targets, fail \in ReserveFails : MemReserve(c, fail)
    \/ \E c \in Targets, fail \in ShrinkFails : MemShrink(c, fail)

SpecMem == InitMem /\ [][NextMem]_vars

\* A file that is only pushed to: created, bound, pushed to, released with
\* its container, opened and bound again.
NextPush ==
    \/ OpenOrCreate
    \/ Open
    \/ Bind
    \/ Close
    \/ \E v \in Vals, fail \in ReserveFails : Push(v, fail)

SpecPush == Init /\ [][NextPush]_vars

\* A container that only grows: a fresh file on a large disk, bound to an
\* element type of each size class, pushed to and reserved for, with no I/O
\* failure.  One element value is enough here.
InitGrow ==
    /\ T \in GrowTypes
    /\ disk = MaxGrowCap
    /\ st = "closed"
    /\ fileLen = 0
    /\ hdr = 0
    /\ data = <<>>
    /\ mmapLen = 0
    /\ refv = <<>>
    /\ synced = TRUE
    /\ halfDone = 0
    /\ pc = Idle
    /\ last = Call("init", -1, -1, "ok", -1)

\* the amounts reserved for: small ones, ones whose byte size reaches the
\* sign bit of usize or wraps around, and the largest usize, which added to
\* a length of 1 or more does not fit
Additionals ==
    (0 .. 3 \cup { (UsizeMod \div 2) \div T.size + 1, UsizeMod \div T.size + 1,
                   UsizeMod - 1 })
        \cap (0 .. UsizeMod - 1)

NextGrow ==
    \/ OpenOrCreate
    \/ Bind
    \/ Push(1, "none")
    \/ \E kind \in ReserveKinds, a \in Additionals : Reserve(kind, a, "none")

SpecGrow == InitGrow /\ [][NextGrow]_vars

\* A container addressed by index and by an explicit length: pushed to,
\* inserted into and removed from at every index up to one past the valid
\* ones, its length set to every value up to one past the capacity.
NextLen ==
    \/ OpenOrCreate
    \/ Bind
    \/ \E v \in Vals, fail \in Refusals : Push(v, fail)
    \/ \E n \in 0 .. Capacity + 1 : SetLen(n)
    \/ \E i \in 0 .. VecLen : SwapRemove(i)
    \/ \E i \in 0 .. VecLen : Remove(i)
    \/ \E i \in 0 .. VecLen + 1, v \in Vals, fail \in Refusals : Insert(i, v, fail)

SpecLen == Init /\ [][NextLen]_vars

\* A container pushed to one step at a time and popped from, the process
\* killed at any step and the file bound again.
NextSteps ==
    \/ OpenOrCreate
    \/ Bind
    \/ \E v \in Vals, fail \in ReserveFails : PushGrow(v, fail)
    \/ PushWrite
    \/ PushLen
    \/ pc = Idle /\ Pop
    \/ Kill

SpecSteps == Init /\ [][NextSteps]_vars

\* The capability on the windows path: the file opened, grown, and shrunk
\* one step at a time with each system call failing or not.
NextWin ==
    \/ pc = Idle /\ OpenOrCreate
    \/ pc = Idle /\ Open
    \/ pc = Idle /\ Close
    \/ \E c \in Targets, fail \in Refusals : pc = Idle /\ MemReserve(c, fail)
    \/ \E c \in Targets, fail \in {"none", "map_anon"} : WinReleaseHeader(c, fail)
    \/ \E fail \in {"none", "metadata", "map_anon"} : WinReleaseData(fail)
    \/ \E fail \in {"none", "set_len"} : WinTruncate(fail)
    \/ \E fail \in {"none", "map_mut"} : WinRemapData(fail)
    \/ \E fail \in {"none", "map_mut"} : WinRemapHeader(fail)

SpecWin == InitMem /\ [][NextWin]_vars

\* the model's own well-formedness: the data sequence has one entry per whole
\* element slot of the file
TypeOK ==
    /\ T \in ElemTypes \cup GrowTypes
    /\ disk \in Nat
    /\ st \in {"closed", "open", "bound"}
    /\ Len(data) = FileSlots
    /\ \A k \in 1 .. Len(data) : data[k] \in Stored
    /\ hdr \in Nat
    /\ pc.at \in {"idle", "write", "len", "shrink", "truncate", "remap", "remap_hdr"}
    /\ pc.len_mmap \in {"file", "anon"} /\ pc.mmap \in {"file", "anon"}
    /\ pc.len \in {"mapped", "dangling"}
    /\ pc.res \in {"ok", "metadata", "map_anon", "set_len"}
    /\ pc.v \in {0} \cup Vals

\* ================================================================ claims

C3_AgreesNow ==
    (st = "bound" /\ synced) =>
        /\ VecLen = Len(refv)
        /\ Elems = refv
        /\ hdr = Len(refv)

C3_Returns ==
    (st = "bound" /\ synced /\ last'.out = "ok") =>
        /\ (last'.op = "pop" /\ Pop) => last'.ret = RefLast(refv)
        /\ last'.op = "remove" =>
                \A i \in 0 .. VecLen :
                    Remove(i) => (i < Len(refv) /\ last'.ret = refv[i + 1])
        /\ last'.op = "swap_remove" =>
                \A i \in 0 .. VecLen :
                    SwapRemove(i) => (i < Len(refv) /\ last'.ret = refv[i + 1])

C3_Refines == [](C3_AgreesNow) /\ [][C3_Returns]_vars

\* remove has just taken the first of two different elements out
C3_Witness ==
    /\ st = "bound" /\ synced
    /\ last.op = "remove" /\ last.out = "ok" /\ last.ret = 1
    /\ refv = <<2>>
    /\ Elems = <<2>>

\* C4: for a predicate that does not abort, retain / retain_mut leaves
\* exactly the elements the predicate returned true for, in their original
\* order, calls the predicate once per original element in index order, and
\* sets the length to the number of elements kept.
C4_RetainStep ==
    (st = "bound" /\ last'.op = "retain" /\ last'.out = "ok") =>
        \A f \in Verdicts(VecLen) :
            Retain(f) =>
                /\ Elems' = RefKept(Elems, f)
                /\ VecLen' = Cardinality({k \in 1 .. VecLen : f[k]})
                /\ RetainMut(data, VecLen, f).calls = [k \in 1 .. VecLen |-> k - 1]
                /\ st' = "bound"

C4_Retain == [][C4_RetainStep]_vars

\* retain has dropped one of three elements and kept two different ones
C4_Witness ==
    /\ st = "bound"
    /\ last.op = "retain" /\ last.out = "ok"
    /\ last.p = 3 /\ last.d = 1
    /\ Elems = <<1, 2>>

\* C5 as the specification states it: when the predicate of retain aborts
\* after p elements have been processed of which d were rejected, the
\* length is set to exactly p - d.
C5_LengthIsProcessedMinusDeleted ==
    (st = "bound" /\ last.op = "retain" /\ last.out = "panic") =>
        VecLen = last.p - last.d

\* C5 (amended): when the predicate of retain aborts after p elements have
\* been processed of which d were rejected, the not yet visited elements are
\* shifted down over the holes and the length is set to the original length
\* minus d: the container holds the p - d elements kept followed by every
\* element not yet visited, in order, and length <= capacity.
C5_AbortStep ==
    (st = "bound" /\ last'.op = "retain" /\ last'.out = "panic") =>
        \A f \in Verdicts(VecLen) :
            Retain(f) =>
                LET p == Len(f)
                    d == Cardinality({k \in 1 .. p : ~f[k]})
                IN  /\ last'.p = p
                    /\ last'.d = d
                    /\ VecLen' = VecLen - d
                    /\ Elems' = RefKept(SubSeq(Elems, 1, p), f)
                                    \o SubSeq(Elems, p + 1, VecLen)
                    /\ VecLen' <= Capacity'
                    /\ st' = "bound"

C5_RetainAbort == [][C5_AbortStep]_vars

\* the predicate rejected the first of three elements and aborted on the
\* second: two elements were not visited, and both are kept
C5_Witness ==
    /\ st = "bound"
    /\ last.op = "retain" /\ last.out = "panic"
    /\ last.p = 1 /\ last.d = 1
    /\ VecLen = 2
    /\ Elems = <<1, 2>>

\* the number of runs of s under the equivalence of the keys K
C6_Runs(s, K(_)) ==
    Cardinality({k \in 1 .. Len(s) : k = 1 \/ K(s[k]) # K(s[k - 1])})

C6_NoAdjacent(s, K(_)) == \A k \in 2 .. Len(s) : K(s[k]) # K(s[k - 1])

C6_Self(v) == v

\* C6: for a comparator that does not abort, dedup / dedup_by /
\* dedup_by_key removes exactly each element judged equal to the kept
\* element before it.  Afterwards no two adjacent elements are equal (have
\* equal keys), the first element of every run is kept, in order, and the
\* length is the number of runs; a container of length 0 or 1 is unchanged.
C6_DedupStep ==
    (st = "bound" /\ last'.op \in {"dedup", "dedup_by_key", "dedup_by"}
        /\ last'.out = "ok") =>
        \A cmp \in Comparators(VecLen) :
            Dedup(cmp) =>
                /\ st' = "bound"
                /\ Elems' = RefDedup(Elems, cmp)
                /\ VecLen' = Len(RefDedup(Elems, cmp))
                /\ VecLen <= 1 => (Elems' = Elems /\ VecLen' = VecLen)
                /\ cmp.kind = "dedup" =>
                        /\ C6_NoAdjacent(Elems', C6_Self)
                        /\ VecLen' = C6_Runs(Elems, C6_Self)
                /\ cmp.kind = "dedup_by_key" =>
                        /\ C6_NoAdjacent(Elems', Key)
                        /\ VecLen' = C6_Runs(Elems, Key)

C6_Dedup == [][C6_DedupStep]_vars

\* dedup has made <<1, 2>> of three elements, two of them equal and adjacent
C6_Witness ==
    /\ st = "bound"
    /\ last.op = "dedup" /\ last.out = "ok"
    /\ last.p = 3 /\ last.d = 2
    /\ Elems = <<1, 2>>

\* C7: when the comparator of dedup_by aborts with the read cursor at r and
\* the write cursor at w, the elements [r, len) are moved down to start at w
\* and the length is set to len - (r - w): the container holds the w
\* elements already placed followed by every element not yet examined, in
\* order, and length <= capacity.
C7_AbortStep ==
    (st = "bound" /\ last'.op = "dedup_by" /\ last'.out = "panic") =>
        \A cmp \in Comparators(VecLen) :
            Dedup(cmp) =>
                LET r == Len(cmp.f) + 1
                    placed == RefDedup(SubSeq(Elems, 1, r), cmp)
                    w == Len(placed)
                IN  /\ last'.p = r
                    /\ last'.d = w
                    /\ VecLen' = VecLen - (r - w)
                    /\ Elems' = placed \o SubSeq(Elems, r + 1, VecLen)
                    /\ VecLen' <= Capacity'
                    /\ st' = "bound"

C7_DedupAbort == [][C7_AbortStep]_vars

\* the comparator judged the second of three elements equal to the first
\* and aborted on the third, which is kept
C7_Witness ==
    /\ st = "bound"
    /\ last.op = "dedup_by" /\ last.out = "panic"
    /\ last.p = 2 /\ last.d = 1
    /\ VecLen = 2
    /\ Elems = <<1, 2>>

\* C8: a reserve or shrink of the mapped file region that returns an I/O
\* error, at whichever step, leaves the state as it was before the call:
\* the file length, the mapped extent, the persisted length and the element
\* contents are unchanged.
C8_FailedStep ==
    (last'.op \in {"mem.reserve", "mem.shrink"} /\ last'.out = "err") =>
        UNCHANGED <<fileLen, mmapLen, hdr, data>>

C8_FailureLeavesState == [][C8_FailedStep]_vars

\* C9: binding a capability to an element type fails with AlignMismatch
\* when the start of the buffer is misaligned for the type and with
\* SizeMismatch when the persisted length exceeds the capacity in elements;
\* in both cases the capability is returned unmodified; a successful bind
\* yields length <= capacity.
C9_BindStep ==
    (st = "open" /\ last'.op = "bind") =>
        /\ AlignOffset(T.align) # 0 => last'.out = "AlignMismatch"
        /\ (AlignOffset(T.align) = 0 /\ hdr > mmapLen \div T.size) =>
                last'.out = "SizeMismatch"
        /\ last'.out \in {"AlignMismatch", "SizeMismatch"} =>
                (st' = "open" /\ UNCHANGED <<fileLen, mmapLen, hdr, data>>)
        /\ last'.out = "ok" => (st' = "bound" /\ VecLen' <= Capacity')

C9_BindErrors == [][C9_BindStep]_vars

\* C10: binding a data region whose byte length is no exact multiple of the
\* element size fails with an error and yields no container.  (Stated for a
\* region that starts aligned; the misaligned start is the case of C9.)
C10_RaggedRegionRefused ==
    (last.op = "bind" /\ AlignOffset(T.align) = 0 /\ mmapLen % T.size # 0) =>
        /\ last.out \in {"AlignMismatch", "SizeMismatch"}
        /\ st # "bound"

\* C11: truncate(n) with n >= length leaves the length and all elements
\* unchanged; with n < length it sets the length to n, discarding exactly
\* the trailing length - n elements and leaving [0, n) unchanged; clear() is
\* truncate(0).
C11_TruncateStep ==
    (st = "bound" /\ last'.op \in {"truncate", "clear"} /\ last'.out = "ok") =>
        /\ st' = "bound"
        /\ UNCHANGED <<data, fileLen, mmapLen>>
        /\ last'.op = "truncate" =>
                \A n \in 0 .. VecLen + 1 :
                    Truncate(n) =>
                        IF n >= VecLen
                        THEN VecLen' = VecLen /\ Elems' = Elems
                        ELSE VecLen' = n /\ Elems' = SubSeq(Elems, 1, n)
        /\ last'.op = "clear" =>
                /\ VecLen' = 0
                /\ Elems' = <<>>

C11_Truncate == [][C11_TruncateStep]_vars

\* truncate has cut a container of at least two elements down to one
C11_Witness ==
    /\ st = "bound"
    /\ last.op = "truncate" /\ last.out = "ok"
    /\ VecLen = 1 /\ Elems = <<1>>
    /\ Len(data) >= 2 /\ data[2] = 2
    /\ Capacity >= 2

\* C12: after shrink_to_fit() the capacity equals the length exactly, with
\* the length and the elements unchanged, and an immediately repeated
\* shrink_to_fit() is a no-op that issues no shrink to the memory
\* capability (so pushes into an empty container of capacity 0, a reopen and
\* shrink_to_fit() give a capacity equal to the number of pushes).
C12_ShrinkStep ==
    (st = "bound" /\ last'.op = "shrink_to_fit" /\ last'.out = "ok") =>
        /\ st' = "bound"
        /\ Capacity' = VecLen'
        /\ VecLen' = VecLen
        /\ Elems' = Elems
        /\ (last.op = "shrink_to_fit" /\ last.out = "ok") =>
                /\ ~last'.called
                /\ UNCHANGED <<fileLen, mmapLen, hdr, data>>

C13_PushStep ==
    (st = "bound" /\ last'.op = "push" /\ last'.out = "ok") =>
        /\ last'.called <=> VecLen = Capacity
        /\ ~last'.called => Capacity' = Capacity
        /\ last'.called =>
                /\ Capacity' >= 2 * Capacity
                /\ Capacity' >= VecLen + 1
                /\ Capacity' > Capacity

C13_AmortizedGrowth == [][C13_PushStep]_vars

\* the ninth push of 41-byte records has grown the capacity from 8 to 16
C13_Witness ==
    /\ T = Record41
    /\ st = "bound"
    /\ last.op = "push" /\ last.out = "ok" /\ last.called
    /\ VecLen = 9
    /\ Capacity = 16

\* C14: whenever try_reserve(additional) or try_reserve_exact(additional)
\* (and hence reserve / reserve_exact) returns successfully, capacity >=
\* length + additional holds for every additional for which length +
\* additional does not overflow, length and elements are unchanged, and
\* when additional <= capacity - length already the memory capability's
\* reserve is not called.
C14_ReserveStep ==
    (st = "bound" /\ last'.op \in ReserveKinds /\ last'.out = "ok") =>
        \A kind \in ReserveKinds, additional \in Additionals :
            Reserve(kind, additional, "none") =>
                /\ VecLen + additional < UsizeMod =>
                        Capacity' >= VecLen + additional
                /\ VecLen' = VecLen
                /\ Elems' = Elems
                /\ additional <= Capacity - VecLen => ~last'.called

C14_ReserveEnsuresCapacity == [][C14_ReserveStep]_vars

\* C15: insert(i, v) with i > length, remove(i) or swap_remove(i) with
\* i >= length, and set_len(n) with n > capacity are reported as fatal
\* faults, not typed errors, and the fault is raised before any mutation:
\* length, capacity and elements (the file, the mapping and every slot) are
\* the same as before the call.
C15_Faulted ==
    /\ last'.out = "panic"
    /\ st' = "bound"
    /\ VecLen' = VecLen /\ Capacity' = Capacity /\ Elems' = Elems
    /\ UNCHANGED <<fileLen, mmapLen, hdr, data>>

C15_FaultStep ==
    (st = "bound" /\ last'.op \in {"insert", "remove", "swap_remove", "set_len"}) =>
        /\ \A i \in 0 .. VecLen + 1, v \in Vals, fail \in Refusals :
                (i > VecLen /\ Insert(i, v, fail)) => C15_Faulted
        /\ \A i \in 0 .. VecLen :
                (i >= VecLen /\ Remove(i)) => C15_Faulted
        /\ \A i \in 0 .. VecLen :
                (i >= VecLen /\ SwapRemove(i)) => C15_Faulted
        /\ \A n \in 0 .. Capacity + 1 :
                (n > Capacity /\ SetLen(n)) => C15_Faulted

C15_OutOfRangeFaults == [][C15_FaultStep]_vars

\* set_len has faulted on a container holding two elements in two slots
C15_Witness ==
    /\ st = "bound"
    /\ last.op = "set_len" /\ last.out = "panic"
    /\ VecLen = 2 /\ Capacity = 2
    /\ Elems = <<1, 2>>

\* C16: open_or_create on an empty or non-existent file extends the file to
\* exactly the header size, writes persisted length 0 and yields a
\* capability with length 0 and capacity 0; on a non-empty file it performs
\* no initialization, leaving the persisted length and the data bytes
\* exactly as stored.
C16_OpenStep ==
    (st = "closed" /\ last'.op = "open_or_create") =>
        IF fileLen = 0
        THEN /\ last'.out = "ok"
             /\ st' = "open"
             /\ fileLen' = HEADER_LEN
             /\ last'.lens = <<0>>
             /\ VecLen' = 0
             /\ mmapLen' = 0
             /\ \A t \in ElemTypes : FileSlotsOf(fileLen', t.size) = 0
             /\ data' = <<>>
        ELSE /\ last'.lens = <<>>
             /\ UNCHANGED <<fileLen, hdr, data>>
             /\ last'.out = "ok" => (st' = "open" /\ mmapLen' = fileLen - HEADER_LEN)

C16_OpenOrCreate == [][C16_OpenStep]_vars

\* an empty file has just been initialised
C16_Witness ==
    /\ st = "open"
    /\ last.op = "open_or_create" /\ last.out = "ok"
    /\ last.lens = <<0>>
    /\ fileLen = HEADER_LEN /\ hdr = 0 /\ mmapLen = 0

\* C17: reserve and shrink on a persistent vector file act only on the data
\* region: the header stays at file bytes [0, H) with H constant, the
\* persisted length word is unchanged by them, the file length never drops
\* below H, and elements [0, length) are the same after the call as before
\* (for a shrink: one whose target is not below the current length, which
\* the caller enforces).  Stated for a mapping that covers the data region
\* of the file, as every opened capability's does until a resize fails
\* half-way.
C17_ElemsKept ==
    \A k \in 1 .. Min(hdr, Len(data)) : k <= Len(data') /\ data'[k] = data[k]

C17_FrameStep ==
    (st = "open" /\ last'.op \in {"mem.reserve", "mem.shrink"}
        /\ mmapLen = MapLen(fileLen)) =>
        /\ hdr' = hdr
        /\ fileLen' >= HEADER_LEN
        /\ last'.op = "mem.reserve" => C17_ElemsKept
        /\ last'.op = "mem.shrink" =>
                \A c \in Targets, fail \in ShrinkFails :
                    (c >= hdr * T.size /\ MemShrink(c, fail)) => C17_ElemsKept

C18_NoOp ==
    /\ last'.out = "ok"
    /\ ~last'.called
    /\ UNCHANGED <<fileLen, mmapLen, hdr, data>>

C18_NoOpStep ==
    (st = "open" /\ last'.op \in {"mem.reserve", "mem.shrink"}) =>
        /\ \A c \in Targets, fail \in ReserveFails :
                (c <= mmapLen /\ MemReserve(c, fail)) => C18_NoOp
        /\ \A c \in Targets, fail \in ShrinkFails :
                (c >= mmapLen /\ MemShrink(c, fail)) => C18_NoOp

C18_SatisfiedTargetIsNoOp == [][C18_NoOpStep]_vars

\* C19: when push needs to grow and the memory capability's reserve fails
\* with an I/O error, the failure is surfaced to the caller of push as the
\* capability's typed (recoverable) error rather than a fatal fault, and
\* length and elements are unchanged.
C19_TypedErrorStep ==
    (st = "bound" /\ last'.op = "push") =>
        \A v \in Vals, fail \in ReserveFails :
            (/\ VecLen = Capacity
             /\ ReserveForPush(VecLen, fail).res = "err"
             /\ Push(v, fail)) =>
                /\ last'.out = "err"
                /\ VecLen' = VecLen
                /\ Elems' = Elems

C19_PanicStep ==
    (st = "bound" /\ last'.op = "push") =>
        \A v \in Vals, fail \in ReserveFails :
            (/\ VecLen = Capacity
             /\ ReserveForPush(VecLen, fail).res = "err"
             /\ Push(v, fail)) =>
                /\ last'.out = "panic"
                /\ st' = "bound"
                /\ VecLen' = VecLen
                /\ Elems' = Elems

C20_Min == IF T.size = 1 THEN 8 ELSE IF T.size <= 1024 THEN 4 ELSE 1

C20_Amortized(additional) ==
    Max(Max(2 * Capacity, VecLen + additional), C20_Min)

C20_Accepted(cap) == cap * T.size < UsizeMod \div 2

C20_GrowStep ==
    (st = "bound" /\ last'.op \in ReserveKinds \cup {"push"} /\ last'.out = "ok") =>
        /\ \A kind \in {"reserve", "try_reserve"}, additional \in Additionals :
                (/\ additional > Capacity - VecLen
                 /\ C20_Accepted(C20_Amortized(additional))
                 /\ Reserve(kind, additional, "none")) =>
                    Capacity' = C20_Amortized(additional)
        /\ \A kind \in {"reserve_exact", "try_reserve_exact"}, additional \in Additionals :
                (/\ additional > Capacity - VecLen
                 /\ C20_Accepted(VecLen + additional)
                 /\ Reserve(kind, additional, "none")) =>
                    Capacity' = VecLen + additional
        /\ (VecLen = Capacity /\ Push(1, "none")) =>
                /\ Capacity' = C20_Amortized(1)
                /\ (T = Record41 /\ Capacity = 0) => Capacity' = 4
                /\ (T = Record41 /\ Capacity = 4) => Capacity' = 8
                /\ (T = Record41 /\ Capacity = 8) => Capacity' = 16

C20_GrowthPolicy == [][C20_GrowStep]_vars

\* ten 41-byte records have been pushed and the capacity is 16
C20_Witness ==
    /\ T = Record41
    /\ st = "bound"
    /\ last.op = "push" /\ last.out = "ok"
    /\ VecLen = 10
    /\ Capacity = 16
    /\ fileLen = HEADER_LEN + 16 * 41

\* C21: push(v) on a container of length n performs its steps in the order
\* grow (only if n = capacity), write v into slot n, increment length; at
\* every intermediate step the length never covers a slot that has not been
\* written and never exceeds capacity, and afterwards length is n + 1,
\* element n is v and elements [0, n) are unchanged.  pop() on length n > 0
\* returns element n - 1 and sets length to n - 1; on length 0 it returns
\* the empty signal and changes nothing.
C21_Covered ==
    st = "bound" =>
        /\ VecLen <= Capacity
        /\ \A k \in 1 .. VecLen : k <= Len(data) /\ data[k] \in Vals

C21_Step ==
    /\ (st = "bound" /\ st' = "bound" /\ pc.at = "idle" /\ pc'.at # "idle") =>
            /\ pc'.at = "write"
            /\ last'.called => VecLen = Capacity
            /\ VecLen = Capacity => (last'.called /\ Capacity' > VecLen)
            /\ VecLen' = VecLen /\ Elems' = Elems
    /\ (st = "bound" /\ st' = "bound" /\ pc.at = "write") =>
            /\ pc'.at = "len" /\ pc'.v = pc.v
            /\ VecLen' = VecLen /\ Elems' = Elems
            /\ data'[VecLen + 1] = pc.v
            /\ UNCHANGED <<fileLen, mmapLen>>
    /\ (st = "bound" /\ st' = "bound" /\ pc.at = "len") =>
            /\ pc' = Idle
            /\ last'.op = "push" /\ last'.out = "ok"
            /\ VecLen' = VecLen + 1
            /\ Elems' = Append(Elems, pc.v)
            /\ UNCHANGED <<fileLen, mmapLen, data>>
    /\ (st = "bound" /\ last'.op = "pop") =>
            IF VecLen = 0
            THEN /\ last'.ret = -1
                 /\ UNCHANGED <<fileLen, mmapLen, hdr, data>>
            ELSE /\ last'.ret = Elems[VecLen]
                 /\ VecLen' = VecLen - 1
                 /\ Elems' = SubSeq(Elems, 1, VecLen - 1)
                 /\ UNCHANGED <<fileLen, mmapLen, data>>

C21_PushPop == []C21_Covered /\ [][C21_Step]_vars

\* a push has grown the file and written its value; the length does not
\* cover the slot yet
C21_Witness ==
    /\ st = "bound"
    /\ pc.at = "len" /\ pc.v = 2
    /\ last.called
    /\ VecLen = 1 /\ Capacity = 2
    /\ data = <<1, 2>>

\* C22: for a container holding sequence s, insert(i, v) with i <= len
\* yields s[0..i] ++ [v] ++ s[i..]; remove(i) with i < len returns s[i] and
\* yields s[0..i] ++ s[i+1..] (so insert(i, v) followed by remove(i) returns
\* v and restores s); swap_remove(i) with i < len returns s[i] and yields s
\* with slot i holding the former last element and length len - 1, all
\* other slots unchanged.
C22_Inserted(s, i, v) == SubSeq(s, 1, i) \o <<v>> \o SubSeq(s, i + 1, Len(s))

C22_Removed(s, i) == SubSeq(s, 1, i) \o SubSeq(s, i + 2, Len(s))

C22_IndexStep ==
    (st = "bound" /\ last'.op \in {"insert", "remove", "swap_remove"}
        /\ last'.out = "ok") =>
        /\ \A i \in 0 .. VecLen + 1, v \in Vals, fail \in Refusals :
                Insert(i, v, fail) =>
                    /\ i <= VecLen
                    /\ Elems' = C22_Inserted(Elems, i, v)
                    /\ C22_Inserted(Elems, i, v)[i + 1] = v
                    /\ C22_Removed(C22_Inserted(Elems, i, v), i) = Elems
        /\ \A i \in 0 .. VecLen :
                Remove(i) =>
                    /\ i < VecLen
                    /\ last'.ret = Elems[i + 1]
                    /\ Elems' = C22_Removed(Elems, i)
        /\ \A i \in 0 .. VecLen :
                SwapRemove(i) =>
                    /\ i < VecLen
                    /\ last'.ret = Elems[i + 1]
                    /\ VecLen' = VecLen - 1
                    /\ \A k \in 1 .. VecLen - 1 :
                            Elems'[k] = IF k = i + 1 THEN Elems[VecLen] ELSE Elems[k]

C22_InsertRemove == [][C22_IndexStep]_vars

\* an insert has shifted two elements
C22_Witness ==
    /\ st = "bound"
    /\ last.op = "insert" /\ last.out = "ok"
    /\ Elems = <<2, 1, 2>>
    /\ refv = <<2, 1, 2>>

\* C23: if the predicate of retain_mut aborts while examining the element at
\* original index p, with d of the first p elements rejected, then
\* afterwards the container holds the p - d kept elements in original order
\* followed by the original elements p .. original_len - 1 in original
\* order (including the element that was being examined), and its length is
\* original_len - d.
C23_Rejected(f, k) == Cardinality({j \in 1 .. k : ~f[j]})

C23_ExaminedStep ==
    (st = "bound" /\ last'.op = "retain" /\ last'.out = "panic") =>
        \A f \in Verdicts(VecLen) :
            Retain(f) =>
                LET p == Len(f)
                    d == C23_Rejected(f, p)
                IN  /\ p < VecLen
                    /\ RetainMut(data, VecLen, f).calls = [k \in 1 .. p + 1 |-> k - 1]
                    /\ VecLen' = VecLen - d
                    /\ \A k \in 1 .. p :
                            f[k] => Elems'[k - C23_Rejected(f, k)] = Elems[k]
                    /\ \A k \in p + 1 .. VecLen : Elems'[k - d] = Elems[k]
                    /\ Elems'[p - d + 1] = Elems[p + 1]

C23_RetainKeepsExamined == [][C23_ExaminedStep]_vars

\* the predicate rejected the first of three elements, kept the second and
\* aborted on the third, which stays
C23_Witness ==
    /\ st = "bound"
    /\ last.op = "retain" /\ last.out = "panic"
    /\ last.p = 2 /\ last.d = 1
    /\ VecLen = 2
    /\ Elems = <<2, 1>>

\* C24: over one retain / retain_mut or dedup_by call, whether it completes
\* or the predicate / comparator aborts partway, the length cell of the
\* memory capability (for a persistent vector file: the header word) is
\* adjusted exactly once, to its final value; no other intermediate length
\* value is ever stored during the scan.
C24_LengthStoredOnce ==
    (st = "bound"
        /\ last.op \in {"retain", "dedup", "dedup_by", "dedup_by_key"}
        /\ last.lens # <<>>) =>
        last.lens = <<VecLen>>

\* C25: after a successful MmapFile reserve(target) with target greater
\* than the mapped extent, the file has been extended by exactly target -
\* extent bytes and the mapping has been replaced by one at the same offset
\* whose extent is at least target; after a successful shrink(target) with
\* target smaller than the extent, the file has been truncated by exactly
\* extent - target bytes and the new mapped extent is at most target.  This
\* holds after any earlier failed reserve / shrink.
C25_ResizeStep ==
    (st = "open" /\ last'.op \in {"mem.reserve", "mem.shrink"}
        /\ last'.out = "ok") =>
        /\ \A c \in Targets, fail \in ReserveFails :
                (c > mmapLen /\ MemReserve(c, fail)) =>
                    /\ fileLen' = fileLen + (c - mmapLen)
                    /\ mmapLen' = MapLen(fileLen')
                    /\ mmapLen' >= c
        /\ \A c \in Targets, fail \in ShrinkFails :
                (c < mmapLen /\ MemShrink(c, fail)) =>
                    /\ fileLen' = fileLen - (mmapLen - c)
                    /\ mmapLen' = MapLen(fileLen')
                    /\ mmapLen' <= c

C25_ResizeIsExact == [][C25_ResizeStep]_vars

\* ------------------------------------------------------------------ C26
\* C26: on the windows path a shrink releases the header mapping and the
\* data mapping, then truncates the file, then re-establishes the data
\* mapping and the header mapping, in that order; at the truncate step no
\* mapping of the file is live; and when the shrink returns, the length
\* cell points into the re-established header mapping and reads the same
\* persisted length as before the shrink.
C26_Order ==
    /\ (pc.at = "idle" /\ pc'.at # "idle") =>
           pc'.at = "shrink" /\ pc'.len_mmap = "anon" /\ pc'.mmap = "file"
    /\ (pc.at = "shrink" /\ pc' # pc) =>
           \/ pc'.at = "truncate" /\ pc'.mmap = "anon" /\ pc'.len_mmap = "anon"
           \/ pc'.at = "remap_hdr" /\ pc'.mmap = "file" /\ fileLen' = fileLen
    /\ pc.at = "truncate" => pc'.at = "remap" /\ pc'.mmap = "anon"
    /\ (pc.at = "remap" /\ st' = "open") =>
           pc'.at = "remap_hdr" /\ pc'.mmap = "file" /\ pc'.len_mmap = "anon"
    /\ (pc.at = "remap_hdr" /\ st' = "open") =>
           pc'.at = "idle" /\ pc'.mmap = "file" /\ pc'.len_mmap = "file"

C26_TruncateUnmapped ==
    (pc.at = "truncate" \/ (pc.at # "idle" /\ fileLen' # fileLen)) =>
        /\ pc.at = "truncate"
        /\ pc.len_mmap = "anon" /\ pc.mmap = "anon" /\ mmapLen = 0

C26_LengthKept ==
    /\ (pc.at # "idle" /\ st' = "open") => hdr' = hdr
    /\ (pc.at = "remap_hdr" /\ pc'.at = "idle" /\ st' = "open") =>
           pc'.len = "mapped" /\ pc'.len_mmap = "file"

C26_WinStep == C26_Order /\ C26_TruncateUnmapped /\ C26_LengthKept

C26_WindowsShrinkOrder == [][C26_WinStep]_vars

\* a shrink that truncated the file has returned, the header reading 1
C26_Witness ==
    /\ st = "open" /\ pc = Idle /\ last.op = "win.shrink" /\ last.out = "ok"
    /\ last.called /\ hdr = 1 /\ fileLen = HEADER_LEN + 1 /\ mmapLen = 1

\* ------------------------------------------------------------------ C27
\* C27: on the windows path, when the truncate fails the shrink still
\* re-establishes the mappings and then returns the truncate error: a
\* failed truncate never ends in anything but that error.
C27_TruncateFailedStep ==
    (pc.res = "set_len" /\ pc.at \in {"remap", "remap_hdr"}) =>
        /\ st' = "open"
        /\ pc'.at = "idle" => last'.out = "err"

C27_TruncateErrorReturned == [][C27_TruncateFailedStep]_vars

\* a shrink of the windows path under way never asks for more bytes to be
\* cut than the file has
WinNoUnderflow ==
    (st = "open" /\ pc.at = "shrink"
        /\ ~IsNegative(WrappingSub(mmapLen, pc.bytes_len))) =>
        WrappingSub(mmapLen, pc.bytes_len) <= fileLen

\* ------------------------------------------------------------------ C28
\* the capacity grow_amortized / grow_exact multiplies by the element size
C28_Cap(kind, additional) ==
    IF kind \in {"reserve", "try_reserve"}
    THEN Max(MinNonZeroCap(T.size), Max(Capacity * 2, VecLen + additional))
    ELSE VecLen + additional

\* length + additional does not fit: the call panics, the capability is not
\* called, nothing changes
C28_OverflowStep ==
    (st = "bound" /\ last'.op \in ReserveKinds) =>
        \A kind \in ReserveKinds, additional \in Additionals :
            (VecLen + additional >= UsizeMod /\ Reserve(kind, additional, "none")) =>
                /\ last'.out = "panic"
                /\ ~last'.called
                /\ UNCHANGED <<hdr, data, fileLen, mmapLen>>

C28_OverflowPanics == [][C28_OverflowStep]_vars

C28_OverflowReached ==
    /\ st = "bound" /\ last.op = "try_reserve" /\ last.out = "panic"
    /\ VecLen = 1 /\ Capacity = 8

\* the byte target handed to the capability is the capacity times the
\* element size, not that product wrapped around
C28_TargetStep ==
    (st = "bound" /\ last'.op \in ReserveKinds /\ last'.called) =>
        \A kind \in ReserveKinds, additional \in Additionals :
            Reserve(kind, additional, "none") =>
                BytesOf(C28_Cap(kind, additional)) = C28_Cap(kind, additional) * T.size

\* C28: when length + additional does not fit the machine word, reserve,
\* reserve_exact, try_reserve and try_reserve_exact end at once with the
\* capacity-overflow panic, without calling the memory capability and
\* without changing length, capacity or elements; and no wrapped-around
\* target is ever passed to the capability's reserve.
C28_NoWrappedTarget == [][C28_OverflowStep /\ C28_TargetStep]_vars

\* ------------------------------------------------------------------ C29
C29_ShrinkStep ==
    (st = "bound" /\ last'.op = "shrink_to" /\ last'.out = "ok") =>
        \A m \in 0 .. MaxCap + 1, fail \in Refusals :
            ShrinkTo(m, fail) =>
                /\ Capacity > Max(VecLen, m) => Capacity' = Max(VecLen, m)
                /\ VecLen' = VecLen
                /\ Elems' = Elems
                /\ Capacity' >= VecLen'

C29_NoOpStep ==
    (st = "bound" /\ last'.op = "shrink_to") =>
        \A m \in 0 .. MaxCap + 1, fail \in Refusals :
            (Capacity <= Max(VecLen, m) /\ ShrinkTo(m, fail)) =>
                /\ ~last'.called
                /\ last'.out = "ok"
                /\ UNCHANGED <<fileLen, mmapLen, hdr, data>>

C29_ShrinkToResult == [][C29_ShrinkStep]_vars

\* C29: shrink_to(m) makes the capacity max(length, m) when it is above
\* that; when the capacity is already at or below that target (capacity <=
\* m, or capacity = length) the call is a no-op that issues no resize and no
\* remap; length and elements are unchanged in all cases and the capacity
\* never drops below the length.
C29_ShrinkTo == [][C29_ShrinkStep /\ C29_NoOpStep]_vars

\* ------------------------------------------------------------------ C30
C30_Ops ==
    {"pop", "remove", "swap_remove", "truncate", "clear", "retain", "dedup",
     "dedup_by", "dedup_by_key"}

\* whatever way the call ends: returned, panicked, or killed by a fault
C30_FrameStep ==
    (st = "bound" /\ last'.op \in C30_Ops) =>
        /\ ~last'.called
        /\ fileLen' = fileLen
        /\ mmapLen' = mmapLen
        /\ CapacityOf(mmapLen') = Capacity
        /\ Len(data') = Len(data)
        /\ \A k \in DOMAIN data : k > VecLen => data'[k] = data[k]

\* C30: pop, remove, swap_remove, truncate, clear, retain, retain_mut,
\* dedup, dedup_by and dedup_by_key never change the capacity and never
\* call the memory capability's reserve or shrink: the size of the backing
\* file and the mapping are the same after the call as before, and only the
\* length word and element slots below the old length are written.
C30_RemovalKeepsCapacity == [][C30_FrameStep]_vars

\* one of two elements was deleted by retain, the capacity staying two
C30_Witness ==
    /\ st = "bound" /\ last.op = "retain" /\ last.out = "ok" /\ last.d = 1
    /\ VecLen = 1 /\ Capacity = 2 /\ Len(data) = 2 /\ data[2] # 0
====
